---- MODULE Spec2Model ----
(***************************************************************************)
(* Model of vitis-example.c: four AXI-lite registers and a BRAM peripheral  *)
(* reached through fixed addresses, the guarded accessors bram_write and    *)
(* bram_read, createUint128_t and main.                                     *)
(*                                                                          *)
(* Machine integers are little-endian sequences of 16-bit limbs, so that    *)
(* 32-bit words (2 limbs), 64-bit pointers and halves (4 limbs) and 128-bit *)
(* values (8 limbs) keep their full width.  Memory is a map from the byte   *)
(* address of a 32-bit word to that word; a 128-bit access touches the four *)
(* consecutive words of its slot (little-endian, as on the ARM targets of   *)
(* the Xilinx tool chain).  The memory behaves as plain storage.            *)
(*                                                                          *)
(* One action per statement.  The BRAM is accessed through a pointer to     *)
(* volatile, so those accesses are made as written.  The registers are      *)
(* accessed through a plain int pointer: C does not make such an access     *)
(* observable, and a compiler may drop a store that the same function        *)
(* overwrites before reading it back (lines 53 and 62, overwritten at 55    *)
(* and 64) and a load whose value is never used (line 82).  gcc -O0 emits    *)
(* every access in program order; gcc -O2 drops exactly those.  The variable *)
(* build chooses between the two.                                            *)
(***************************************************************************)
EXTENDS Integers, Sequences, FiniteSets, TLC

VARIABLES
    build,      \* "in_order": every access is emitted; "optimised": see above
    mem,        \* byte address of a word -> 32-bit word
    mem0,       \* the memory as it was before the first statement (history)
    pc,         \* thread -> the line of bram_write/bram_read it is at, or "idle"
    frame,      \* thread -> parameters and locals of the accessor it runs
    ret,        \* thread -> value returned by its last call
    calls,      \* thread -> number of accessor calls it has issued
    bus,        \* the accesses and calls observed so far, in order (history)
    mpc,        \* position of main
    platform,   \* "down", "up" (after init_platform), "cleaned"
    value1,     \* main's locals
    value2,
    value3,
    rc,         \* main's return code
    high,       \* arguments and result of a createUint128_t evaluation
    low,
    result

vars == <<build, mem, mem0, pc, frame, ret, calls, bus, mpc, platform,
          value1, value2, value3, rc, high, low, result>>

mainVars == <<mpc, platform, value1, value2, value3, rc>>
createVars == <<high, low, result>>

----------------------------------------------------------------------------
(* Fixed-width unsigned arithmetic on limb sequences *)

Base == 2^16

RECURSIVE Zeros(_)
Zeros(w) == IF w <= 0 THEN <<>> ELSE <<0>> \o Zeros(w - 1)

RECURSIVE Nat2Limbs(_, _)
Nat2Limbs(n, w) ==
    IF w = 0 THEN <<>> ELSE <<n % Base>> \o Nat2Limbs(n \div Base, w - 1)

\* conversion of an unsigned value to a wider unsigned type
ZeroExtend(a, w) == a \o Zeros(w - Len(a))

\* a + b + c modulo 2^(16 * Len(a)), Len(a) = Len(b)
RECURSIVE AddC(_, _, _)
AddC(a, b, c) ==
    IF a = <<>> THEN <<>>
    ELSE LET s == Head(a) + Head(b) + c
         IN  <<s % Base>> \o AddC(Tail(a), Tail(b), s \div Base)

Add(a, b) == AddC(a, b, 0)

\* a * k + c modulo 2^(16 * Len(a)), for a small factor k
RECURSIVE MulSmall(_, _, _)
MulSmall(a, k, c) ==
    IF a = <<>> THEN <<>>
    ELSE LET p == Head(a) * k + c
         IN  <<p % Base>> \o MulSmall(Tail(a), k, p \div Base)

\* a << n in the width of a (n smaller than that width)
ShiftLeft(a, n) ==
    SubSeq(Zeros(n \div 16) \o MulSmall(a, 2^(n % 16), 0), 1, Len(a))

RECURSIVE OrNat(_, _)
OrNat(x, y) ==
    IF x = 0 THEN y
    ELSE IF y = 0 THEN x
    ELSE (IF x % 2 = 1 \/ y % 2 = 1 THEN 1 ELSE 0) + 2 * OrNat(x \div 2, y \div 2)

\* a | b, Len(a) = Len(b)
RECURSIVE BitOr(_, _)
BitOr(a, b) ==
    IF a = <<>> THEN <<>>
    ELSE <<OrNat(Head(a), Head(b))>> \o BitOr(Tail(a), Tail(b))

----------------------------------------------------------------------------
(* Types and addresses *)

\* limbs of an int / unsigned int
IntLimbs == 2
\* limbs of a uint64_t
U64Limbs == 4
\* limbs of a uint128_t (unsigned __int128)
U128Limbs == 8
\* limbs of a pointer: unsigned __int128 exists only on 64-bit targets
PtrLimbs == 4
\* sizeof(uint128_t) and sizeof(int), in bytes
SizeofU128 == 16
SizeofInt == 4

IntWord(n) == Nat2Limbs(n, IntLimbs)

\* an integer constant expression of type unsigned int, cast to a pointer
Ptr(u) == ZeroExtend(u, PtrLimbs)

\* 0xA0000000, 0xB0000000 (unsigned int constants)
SLV_REG0 == <<0, 40960>>
SLV_REG1 == Add(SLV_REG0, IntWord(4))
SLV_REG2 == Add(SLV_REG0, IntWord(8))
SLV_REG3 == Add(SLV_REG0, IntWord(12))
BRAM_BASE == <<0, 45056>>

RegAddrs == {Ptr(SLV_REG0), Ptr(SLV_REG1), Ptr(SLV_REG2), Ptr(SLV_REG3)}

\* ElemAddr with the address arithmetic done in 32 bits
ElemAddr32(p, idx, size) ==
    ZeroExtend(Add(SubSeq(p, 1, IntLimbs), MulSmall(idx, size, 0)), PtrLimbs)

\* &p[idx] for a pointer p to elements of `size` bytes and an unsigned int idx
ElemAddr(p, idx, size) == Add(p, MulSmall(ZeroExtend(idx, PtrLimbs), size, 0))

\* WriteSlotAddr with the index scaled by sizeof(int)
WriteSlotAddr_intScale(bram_addr) == ElemAddr(Ptr(BRAM_BASE), bram_addr, SizeofInt)

\* the address of bram_ptr[bram_addr] in bram_write
WriteSlotAddr(bram_addr) == ElemAddr(Ptr(BRAM_BASE), bram_addr, SizeofU128)

\* ReadSlotAddr with the index scaled by sizeof(int)
ReadSlotAddr_intScale(bram_addr) == ElemAddr(Ptr(BRAM_BASE), bram_addr, SizeofInt)

\* the address of bram_ptr[bram_addr] in bram_read
ReadSlotAddr(bram_addr) == ElemAddr(Ptr(BRAM_BASE), bram_addr, SizeofU128)

\* the address of the k-th 32-bit word (k = 0..3) of the 128-bit object at a
WordAddr(a, k) == Add(a, Nat2Limbs(SizeofInt * k, PtrLimbs))

SlotWords(a) == {WordAddr(a, k) : k \in 0..3}

\* the k-th 32-bit word (k = 0..3) of a 128-bit value, least significant first
WordOf(v, k) == SubSeq(v, IntLimbs * k + 1, IntLimbs * k + IntLimbs)

\* *((int *)a) = w
Store32(m, a, w) == IF a \in DOMAIN m THEN [m EXCEPT ![a] = w] ELSE m

\* Store128 of a value truncated to 64 bits: only the two low words are stored
Store128_low64(m, a, v) ==
    [x \in DOMAIN m |->
        IF x \in {WordAddr(a, 0), WordAddr(a, 1)}
        THEN WordOf(v, CHOOSE k \in 0..1 : x = WordAddr(a, k))
        ELSE m[x]]

\* *((volatile uint128_t *)a) = v
Store128(m, a, v) ==
    [x \in DOMAIN m |->
        IF x \in SlotWords(a)
        THEN WordOf(v, CHOOSE k \in 0..3 : x = WordAddr(a, k))
        ELSE m[x]]

\* *((volatile uint128_t *)a)
Load128(m, a) ==
    m[WordAddr(a, 0)] \o m[WordAddr(a, 1)] \o m[WordAddr(a, 2)] \o m[WordAddr(a, 3)]

\* createUint128_t shifting by 32 instead of 64
createUint128_t_shift32(h, l) ==
    BitOr(ShiftLeft(ZeroExtend(h, U128Limbs), 32), ZeroExtend(l, U128Limbs))

\* ((uint128_t)high << 64) | low
createUint128_t(h, l) ==
    BitOr(ShiftLeft(ZeroExtend(h, U128Limbs), 64), ZeroExtend(l, U128Limbs))

----------------------------------------------------------------------------
(* Inputs *)

\* longest sequence of accessor calls the test driver issues
MaxCalls == 2

U64(n) == Nat2Limbs(n, U64Limbs)
AllOnes(w) == IF w = 0 THEN <<>> ELSE [k \in 1..w |-> Base - 1]

\* unsigned int indices: the first slots, the largest index, and the two
\* indices whose byte offsets are 0xF0000000 and 2^32
Indices == {IntWord(0), IntWord(1), <<0, 3840>>, <<0, 4096>>, AllOnes(IntLimbs)}

\* 64-bit halves
Halves ==
    {U64(0), U64(1), U64(2), U64(42), AllOnes(U64Limbs),
     <<0, 0, 0, 32768>>, <<65535, 65535, 0, 0>>, <<0, 0, 65535, 65535>>,
     <<291, 17767, 35243, 52719>>, <<43690, 21845, 43690, 21845>>}

\* 128-bit values passed to bram_write
WriteValues ==
    {createUint128_t(U64(1), U64(2)),
     createUint128_t(<<4951, 39903, 9320, 44256>>, <<291, 17767, 35243, 52719>>)}

NoValue == <<>>

\* the builds of the program
Builds == {"in_order", "optimised"}

\* *((int *)SLV_REG3) = 0b1 is a store through a non-volatile lvalue that
\* the function overwrites two statements later: it need not be emitted
EnableStoreEmitted == build = "in_order"

\* int value1 = *((int *)SLV_REG0) is a non-volatile load of a value that is
\* never used: it need not be emitted
UnusedLoadEmitted == build = "in_order"

\* the word addresses the model keeps: the registers and the indexed slots
Tracked ==
    RegAddrs \cup UNION {SlotWords(WriteSlotAddr(i)) \cup SlotWords(ReadSlotAddr(i))
                         : i \in Indices}

\* prior contents: REG3 arbitrary, the rest zero or a pattern of the address
InitReg3 == {IntWord(0), IntWord(1), AllOnes(IntLimbs)}
InitMems ==
    {[a \in Tracked |->
        IF a = Ptr(SLV_REG3) THEN r3
        ELSE IF fill = 0 THEN IntWord(0) ELSE <<a[1] + 1, 23130>>]
     : r3 \in InitReg3, fill \in {0, 1}}

----------------------------------------------------------------------------
(* The observed bus: one entry per access or call, with the content of the  *)
(* enable register REG3 at that moment                                      *)

Ev(t, op, addr, val) ==
    [th |-> t, op |-> op, addr |-> addr, val |-> val, gate |-> mem[Ptr(SLV_REG3)]]

Goto(t, l) == pc' = [pc EXCEPT ![t] = l]

\* entry into bram_write(value, bram_addr) / bram_read(bram_addr) by thread t
Call(t, fn, value, bram_addr) ==
    /\ pc[t] = "idle"
    /\ frame' = [frame EXCEPT ![t] = [value |-> value, bram_addr |-> bram_addr]]
    /\ calls' = [calls EXCEPT ![t] = @ + 1]
    /\ bus' = Append(bus, Ev(t, fn, bram_addr, value))
    /\ Goto(t, IF fn = "bram_write" THEN "L53" ELSE "L62")
    /\ UNCHANGED <<build, mem, mem0, ret>>

----------------------------------------------------------------------------
(* bram_write *)

\* *((int *)SLV_REG3) = 0b1;
L53(t) ==
    /\ pc[t] = "L53"
    /\ IF EnableStoreEmitted
       THEN /\ mem' = Store32(mem, Ptr(SLV_REG3), IntWord(1))
            /\ bus' = Append(bus, Ev(t, "store32", Ptr(SLV_REG3), IntWord(1)))
       ELSE UNCHANGED <<mem, bus>>
    /\ Goto(t, "L54")
    /\ UNCHANGED <<build, mem0, frame, ret, calls, mainVars, createVars>>

\* bram_ptr[bram_addr] = value;
L54(t) ==
    /\ pc[t] = "L54"
    /\ mem' = Store128(mem, WriteSlotAddr(frame[t].bram_addr), frame[t].value)
    /\ bus' = Append(bus, Ev(t, "store128", WriteSlotAddr(frame[t].bram_addr),
                             frame[t].value))
    /\ Goto(t, "L55")
    /\ UNCHANGED <<build, mem0, frame, ret, calls, mainVars, createVars>>

\* *((int *)SLV_REG3) = 0b0;
L55(t) ==
    /\ pc[t] = "L55"
    /\ mem' = Store32(mem, Ptr(SLV_REG3), IntWord(0))
    /\ bus' = Append(bus, Ev(t, "store32", Ptr(SLV_REG3), IntWord(0)))
    /\ Goto(t, "L56")
    /\ UNCHANGED <<build, mem0, frame, ret, calls, mainVars, createVars>>

\* } return to the caller
L56(t) ==
    /\ pc[t] = "L56"
    /\ ret' = [ret EXCEPT ![t] = NoValue]
    /\ bus' = Append(bus, Ev(t, "return", frame[t].bram_addr, NoValue))
    /\ Goto(t, "idle")
    /\ UNCHANGED <<build, mem, mem0, frame, calls, mainVars, createVars>>

----------------------------------------------------------------------------
(* bram_read *)

\* L62 without the store: bram_read does not enable the gate
L62_noEnable(t) ==
    /\ pc[t] = "L62"
    /\ Goto(t, "L63")
    /\ UNCHANGED <<build, mem, mem0, frame, ret, calls, bus, mainVars, createVars>>

\* *((int *)SLV_REG3) = 0b1;
L62(t) ==
    /\ pc[t] = "L62"
    /\ IF EnableStoreEmitted
       THEN /\ mem' = Store32(mem, Ptr(SLV_REG3), IntWord(1))
            /\ bus' = Append(bus, Ev(t, "store32", Ptr(SLV_REG3), IntWord(1)))
       ELSE UNCHANGED <<mem, bus>>
    /\ Goto(t, "L63")
    /\ UNCHANGED <<build, mem0, frame, ret, calls, mainVars, createVars>>

\* uint128_t value = bram_ptr[bram_addr];
L63(t) ==
    /\ pc[t] = "L63"
    /\ frame' = [frame EXCEPT
                   ![t].value = Load128(mem, ReadSlotAddr(frame[t].bram_addr))]
    /\ bus' = Append(bus, Ev(t, "load128", ReadSlotAddr(frame[t].bram_addr),
                             Load128(mem, ReadSlotAddr(frame[t].bram_addr))))
    /\ Goto(t, "L64")
    /\ UNCHANGED <<build, mem, mem0, ret, calls, mainVars, createVars>>

\* *((int *)SLV_REG3) = 0b0;
L64(t) ==
    /\ pc[t] = "L64"
    /\ mem' = Store32(mem, Ptr(SLV_REG3), IntWord(0))
    /\ bus' = Append(bus, Ev(t, "store32", Ptr(SLV_REG3), IntWord(0)))
    /\ Goto(t, "L66")
    /\ UNCHANGED <<build, mem0, frame, ret, calls, mainVars, createVars>>

\* return value;
L66(t) ==
    /\ pc[t] = "L66"
    /\ ret' = [ret EXCEPT ![t] = frame[t].value]
    /\ bus' = Append(bus, Ev(t, "return", frame[t].bram_addr, frame[t].value))
    /\ Goto(t, "idle")
    /\ UNCHANGED <<build, mem, mem0, frame, calls, mainVars, createVars>>

----------------------------------------------------------------------------
(* A single-threaded test driver: any sequence of calls on any prior memory *)

NoFrame == [value |-> NoValue, bram_addr |-> NoValue]

InitThreads(T) ==
    /\ build \in Builds
    /\ mem \in InitMems
    /\ mem0 = mem
    /\ pc = [t \in T |-> "idle"]
    /\ frame = [t \in T |-> NoFrame]
    /\ ret = [t \in T |-> NoValue]
    /\ calls = [t \in T |-> 0]
    /\ bus = <<>>

NoMain ==
    /\ mpc = "none"
    /\ platform = "up"
    /\ value1 = NoValue /\ value2 = NoValue /\ value3 = NoValue
    /\ rc = NoValue

NoCreate == high = NoValue /\ low = NoValue /\ result = NoValue

Init == InitThreads({1}) /\ NoMain /\ NoCreate

DriverWrite(t) ==
    /\ calls[t] < MaxCalls
    /\ \E v \in WriteValues, i \in Indices : Call(t, "bram_write", v, i)
    /\ UNCHANGED <<build, mainVars, createVars>>

DriverRead(t) ==
    /\ calls[t] < MaxCalls
    /\ \E i \in Indices : Call(t, "bram_read", NoValue, i)
    /\ UNCHANGED <<build, mainVars, createVars>>

Next ==
    \E t \in DOMAIN pc :
        \/ DriverWrite(t)
        \/ DriverRead(t)
        \/ L53(t) \/ L54(t) \/ L55(t) \/ L56(t)
        \/ L62(t) \/ L63(t) \/ L64(t) \/ L66(t)

Spec == Init /\ [][Next]_vars

----------------------------------------------------------------------------
(* Two actors, each running one accessor call, their statements interleaved *)

InitConc == InitThreads({1, 2}) /\ NoMain /\ NoCreate

\* the indices the two actors use, and the value they write
ConcIndices == {IntWord(0), IntWord(1)}
ConcValue == createUint128_t(U64(1), U64(2))

ActorWrite(t) ==
    /\ calls[t] = 0
    /\ \E i \in ConcIndices : Call(t, "bram_write", ConcValue, i)
    /\ UNCHANGED <<build, mainVars, createVars>>

ActorRead(t) ==
    /\ calls[t] = 0
    /\ \E i \in ConcIndices : Call(t, "bram_read", NoValue, i)
    /\ UNCHANGED <<build, mainVars, createVars>>

NextConc ==
    \E t \in DOMAIN pc :
        \/ ActorWrite(t)
        \/ ActorRead(t)
        \/ L53(t) \/ L54(t) \/ L55(t) \/ L56(t)
        \/ L62(t) \/ L63(t) \/ L64(t) \/ L66(t)

SpecConc == InitConc /\ [][NextConc]_vars

----------------------------------------------------------------------------
(* main *)

InitMain ==
    /\ InitThreads({1}) /\ NoCreate
    /\ mpc = "L74"
    /\ platform = "down"
    /\ value1 = NoValue /\ value2 = NoValue /\ value3 = NoValue
    /\ rc = NoValue

MainGoto(l) == mpc' = l

\* main without the call of init_platform
M74_noInit ==
    /\ mpc = "L74"
    /\ MainGoto("L76")
    /\ UNCHANGED <<build, mem, mem0, pc, frame, ret, calls, bus, platform, value1, value2,
                   value3, rc, createVars>>

\* init_platform();
M74 ==
    /\ mpc = "L74"
    /\ platform' = "up"
    /\ bus' = Append(bus, Ev(1, "init_platform", NoValue, NoValue))
    /\ MainGoto("L76")
    /\ UNCHANGED <<build, mem, mem0, pc, frame, ret, calls, value1, value2, value3, rc,
                   createVars>>

\* print("Starting\n");
M76 ==
    /\ mpc = "L76"
    /\ bus' = Append(bus, Ev(1, "print", NoValue, "Starting\n"))
    /\ MainGoto("L79")
    /\ UNCHANGED <<build, mem, mem0, pc, frame, ret, calls, platform, value1, value2,
                   value3, rc, createVars>>

\* *((int *)SLV_REG0) = 42;
M79 ==
    /\ mpc = "L79"
    /\ mem' = Store32(mem, Ptr(SLV_REG0), IntWord(42))
    /\ bus' = Append(bus, Ev(1, "store32", Ptr(SLV_REG0), IntWord(42)))
    /\ MainGoto("L82")
    /\ UNCHANGED <<build, mem0, pc, frame, ret, calls, platform, value1, value2, value3,
                   rc, createVars>>

\* int value1 = *((int *)SLV_REG0);
M82 ==
    /\ mpc = "L82"
    /\ IF UnusedLoadEmitted
       THEN /\ value1' = mem[Ptr(SLV_REG0)]
            /\ bus' = Append(bus, Ev(1, "load32", Ptr(SLV_REG0), mem[Ptr(SLV_REG0)]))
       ELSE UNCHANGED <<value1, bus>>
    /\ MainGoto("L85")
    /\ UNCHANGED <<build, mem, mem0, pc, frame, ret, calls, platform, value2, value3, rc,
                   createVars>>

\* uint128_t value2 = createUint128_t(0x0000000000000001, 0x0000000000000002);
M85 ==
    /\ mpc = "L85"
    /\ value2' = createUint128_t(U64(1), U64(2))
    /\ MainGoto("L86")
    /\ UNCHANGED <<build, mem, mem0, pc, frame, ret, calls, bus, platform, value1, value3,
                   rc, createVars>>

\* bram_write(value2, 0);
M86 ==
    /\ mpc = "L86"
    /\ Call(1, "bram_write", value2, IntWord(0))
    /\ MainGoto("L89")
    /\ UNCHANGED <<build, platform, value1, value2, value3, rc, createVars>>

\* uint128_t value3 = bram_read(0);  -- the call, once bram_write has returned
M89 ==
    /\ mpc = "L89"
    /\ Call(1, "bram_read", NoValue, IntWord(0))
    /\ MainGoto("L89r")
    /\ UNCHANGED <<build, platform, value1, value2, value3, rc, createVars>>

\* uint128_t value3 = bram_read(0);  -- the initialisation from the result
M89r ==
    /\ mpc = "L89r"
    /\ pc[1] = "idle"
    /\ value3' = ret[1]
    /\ MainGoto("L91")
    /\ UNCHANGED <<build, mem, mem0, pc, frame, ret, calls, bus, platform, value1, value2,
                   rc, createVars>>

\* print("Done\n");
M91 ==
    /\ mpc = "L91"
    /\ bus' = Append(bus, Ev(1, "print", NoValue, "Done\n"))
    /\ MainGoto("L93")
    /\ UNCHANGED <<build, mem, mem0, pc, frame, ret, calls, platform, value1, value2,
                   value3, rc, createVars>>

\* cleanup_platform();
M93 ==
    /\ mpc = "L93"
    /\ platform' = "cleaned"
    /\ bus' = Append(bus, Ev(1, "cleanup_platform", NoValue, NoValue))
    /\ MainGoto("L94")
    /\ UNCHANGED <<build, mem, mem0, pc, frame, ret, calls, value1, value2, value3, rc,
                   createVars>>

\* return 0;
M94 ==
    /\ mpc = "L94"
    /\ rc' = IntWord(0)
    /\ MainGoto("exit")
    /\ UNCHANGED <<build, mem, mem0, pc, frame, ret, calls, bus, platform, value1, value2,
                   value3, createVars>>

NextMain ==
    \/ M74 \/ M76 \/ M79 \/ M82 \/ M85 \/ M86 \/ M89 \/ M89r \/ M91 \/ M93 \/ M94
    \/ L53(1) \/ L54(1) \/ L55(1) \/ L56(1)
    \/ L62(1) \/ L63(1) \/ L64(1) \/ L66(1)

\* a sequential program: the next statement is always executed
SpecMain == InitMain /\ [][NextMain]_vars /\ WF_vars(NextMain)

----------------------------------------------------------------------------
(* createUint128_t on its own, for every pair of halves *)

InitCreate ==
    /\ InitThreads({1}) /\ NoMain
    /\ mem = CHOOSE m \in InitMems : TRUE
    /\ high \in Halves
    /\ low \in Halves
    /\ result = NoValue

\* result = createUint128_t(high, low);
Create ==
    /\ result = NoValue
    /\ result' = createUint128_t(high, low)
    /\ UNCHANGED <<build, mem, mem0, pc, frame, ret, calls, bus, mainVars, high, low>>

NextCreate == Create

SpecCreate == InitCreate /\ [][NextCreate]_vars

----------------------------------------------------------------------------
(* Reading the observed bus *)

Access(e) == [op |-> e.op, addr |-> e.addr, val |-> e.val]

\* the entries of thread t, in order
Seen(t) == LET Mine(e) == e.th = t IN SelectSeq(bus, Mine)

DataOps == {"store128", "load128"}
AccessOps == {"store32", "load32", "store128", "load128"}
CallOps == {"bram_write", "bram_read"}

Enable == [op |-> "store32", addr |-> Ptr(SLV_REG3), val |-> IntWord(1)]
Disable == [op |-> "store32", addr |-> Ptr(SLV_REG3), val |-> IntWord(0)]

\* the last entry of the bus is a store and memory holds what it stored, or
\* it is a load and carries what memory holds
LastAccessFaithful ==
    bus # <<>> =>
        LET e == bus[Len(bus)]
        IN  /\ e.op = "store32" => mem[e.addr] = e.val
            /\ e.op = "store128" => Load128(mem, e.addr) = e.val
            /\ e.op = "load128" => Load128(mem, e.addr) = e.val

\* the position of the call that entry k of a single thread's bus belongs
\* to (0 if none), and that call's index argument
RECURSIVE CallPos(_, _)
CallPos(s, k) ==
    IF k <= 0 THEN 0 ELSE IF s[k].op \in CallOps THEN k ELSE CallPos(s, k - 1)

CallIdx(s, k) == IF CallPos(s, k) = 0 THEN NoValue ELSE s[CallPos(s, k)].addr

\* a is a subsequence of b
RECURSIVE IsSubsequence(_, _)
IsSubsequence(a, b) ==
    IF a = <<>> THEN TRUE
    ELSE IF b = <<>> THEN FALSE
    ELSE IF Head(a) = Head(b) THEN IsSubsequence(Tail(a), Tail(b))
    ELSE IsSubsequence(a, Tail(b))

----------------------------------------------------------------------------
(* C1: every call bram_write(v, i) makes exactly three accesses, in this    *)
(* order: store of 1 to REG3, store of v to slot i, store of 0 to REG3, and  *)
(* then returns; REG3 sees exactly [1, 0], with the data store in between.  *)
C1_WriteSequence ==
    LET s == Seen(1)
        Steps(i, v) ==
            << Enable,
               [op |-> "store128", addr |-> WriteSlotAddr(i), val |-> v],
               Disable,
               [op |-> "return", addr |-> i, val |-> NoValue] >>
    IN  /\ \A k \in 1..Len(s) :
             s[k].op = "bram_write" =>
                 \A j \in 1..4 :
                     k + j <= Len(s) => Access(s[k + j]) = Steps(s[k].addr, s[k].val)[j]
        /\ pc[1] = "idle" /\ s # <<>> => s[Len(s)].op = "return"
        /\ LastAccessFaithful

(* C2: every call bram_read(i) makes exactly three accesses, in this order:  *)
(* store of 1 to REG3, load of slot i, store of 0 to REG3; the load carries  *)
(* the content of slot i at that moment and the call returns that value.     *)
C2_ReadSequence ==
    /\ \A t \in DOMAIN pc :
         LET s == Seen(t)
         IN  \A k \in 1..Len(s) :
                 s[k].op = "bram_read" =>
                     /\ k + 1 <= Len(s) => Access(s[k + 1]) = Enable
                     /\ k + 2 <= Len(s) =>
                            /\ s[k + 2].op = "load128"
                            /\ s[k + 2].addr = ReadSlotAddr(s[k].addr)
                     /\ k + 3 <= Len(s) => Access(s[k + 3]) = Disable
                     /\ k + 4 <= Len(s) =>
                            /\ s[k + 4].op = "return"
                            /\ s[k + 4].val = s[k + 2].val
    /\ LastAccessFaithful

(* C3: bram_write(v, i) followed immediately by bram_read(i) returns v, all  *)
(* 128 bits, for every index and whatever the memory held before.            *)
C3_RoundTrip ==
    \A r \in 1..Len(bus) :
        LET c == CallPos(bus, r)
            w == CallPos(bus, c - 1)
        IN  /\ bus[r].op = "return"
            /\ bus[c].op = "bram_read"
            /\ w > 0
            /\ bus[w].op = "bram_write"
            /\ bus[w].addr = bus[c].addr
            => /\ bus[r].val = bus[w].val
               /\ (r = Len(bus) => ret[1] = bus[w].val)

\* the round trip has been made at the largest index over a memory that held
\* something else, with REG3 all ones at the start
C3_Witness ==
    /\ bus # <<>>
    /\ bus[Len(bus)].op = "return"
    /\ bus[CallPos(bus, Len(bus))].op = "bram_read"
    /\ bus[1].op = "bram_write"
    /\ bus[1].addr = AllOnes(IntLimbs)
    /\ CallIdx(bus, Len(bus)) = AllOnes(IntLimbs)
    /\ calls[1] = 2
    /\ mem0[Ptr(SLV_REG3)] = AllOnes(IntLimbs)
    /\ Load128(mem0, WriteSlotAddr(bus[1].addr)) # bus[1].val

(* C4: the accessors never change REG0, REG1 or REG2, for any index of the   *)
(* unsigned int range; the only register they store to is REG3.              *)
C4_RegistersKept ==
    /\ \A r \in {SLV_REG0, SLV_REG1, SLV_REG2} : mem[Ptr(r)] = mem0[Ptr(r)]
    /\ \A k \in 1..Len(bus) :
         /\ bus[k].op = "store32" => bus[k].addr = Ptr(SLV_REG3)
         /\ bus[k].op = "store128" => SlotWords(bus[k].addr) \cap RegAddrs = {}

\* a write at index 0x0F000000 (byte offset 0xF0000000) has returned, over
\* registers that held something other than the value written
C4_Witness ==
    /\ bus # <<>>
    /\ bus[1].op = "bram_write"
    /\ bus[1].addr = <<0, 3840>>
    /\ bus[Len(bus)].op = "return"
    /\ mem0[Ptr(SLV_REG0)] # WordOf(bus[1].val, 0)

(* C5: createUint128_t(high, low) is high * 2^64 + low: the low 64 bits of   *)
(* the result are low, the high 64 bits are high, nothing lost, nothing      *)
(* overlapping; high = 1, low = 2 gives (1 << 64) | 2.                       *)
C5_CreateConcatenates ==
    result # NoValue =>
        /\ Len(result) = U128Limbs
        /\ \A k \in 1..U64Limbs :
             /\ result[k] = low[k]
             /\ result[U64Limbs + k] = high[k]
        /\ (high = U64(1) /\ low = U64(2) => result = <<2, 0, 0, 0, 1, 0, 0, 0>>)

\* the function has been applied to two halves whose bits differ everywhere
\* but at the top: the top bit alone above, all ones below
C5_Witness ==
    /\ result # NoValue
    /\ high = <<0, 0, 0, 32768>>
    /\ low = AllOnes(U64Limbs)

\* BRAM base + 16 * i for each index i, computed without wrap-around (five
\* limbs)
SlotAddrExact ==
    [i \in Indices |->
        Add(ZeroExtend(BRAM_BASE, PtrLimbs + 1),
            MulSmall(ZeroExtend(i, PtrLimbs + 1), 16, 0))]

\* a - b - c modulo 2^(16 * Len(a)), Len(a) = Len(b)
RECURSIVE SubB(_, _, _)
SubB(a, b, c) ==
    IF a = <<>> THEN <<>>
    ELSE LET d == Head(a) - Head(b) - c
         IN  <<(d + Base) % Base>> \o SubB(Tail(a), Tail(b), IF d < 0 THEN 1 ELSE 0)

\* the 128-bit objects at a and at b share a byte: one of them starts
\* less than 16 bytes after the other
Below16(x) == x[1] < 16 /\ \A k \in 2..Len(x) : x[k] = 0
Overlap(a, b) == Below16(SubB(a, b, 0)) \/ Below16(SubB(b, a, 0))

(* C6: the data access of bram_write(v, i) and of bram_read(i) is at BRAM    *)
(* base + 16 * i; the same index gives the same address in both, and two     *)
(* different indices give two 16-byte locations that do not overlap.         *)
C6_SlotAddress ==
    \A k \in 1..Len(bus) :
        bus[k].op \in DataOps =>
            /\ ZeroExtend(bus[k].addr, PtrLimbs + 1) = SlotAddrExact[CallIdx(bus, k)]
            /\ \A j \in 1..Len(bus) :
                 bus[j].op \in DataOps =>
                     IF CallIdx(bus, j) = CallIdx(bus, k)
                     THEN bus[j].addr = bus[k].addr
                     ELSE ~Overlap(bus[j].addr, bus[k].addr)

\* a store to slot 0 and a load of the slot at index 2^28 (byte offset 2^32)
C6_Witness ==
    \E j, k \in 1..Len(bus) :
        /\ bus[j].op = "store128"
        /\ CallIdx(bus, j) = IntWord(0)
        /\ bus[k].op = "load128"
        /\ CallIdx(bus, k) = <<0, 4096>>

(* C7: with two actors the bracketing excludes nothing: a data access can    *)
(* happen while REG3 is not 1 although the actor has stored 1 to it, and     *)
(* then REG3 is 0 because the other actor's store of 0 fell between this     *)
(* actor's store of 1 and its access.                                        *)
C7_GateClearedByOtherActor ==
    \A k \in 1..Len(bus) :
        bus[k].op \in DataOps /\ bus[k].gate # IntWord(1) =>
            \/ ~EnableStoreEmitted
            \/ /\ bus[k].gate = IntWord(0)
               /\ \E e \in 1..(k - 1), d \in 1..(k - 1) :
                    /\ e < d
                    /\ bus[e].th = bus[k].th
                    /\ Access(bus[e]) = Enable
                    /\ bus[d].th # bus[k].th
                    /\ Access(bus[d]) = Disable

\* a data access made while the enable register is 0, by an actor that has
\* stored 1 to it
C7_Witness ==
    /\ EnableStoreEmitted
    /\ \E k \in 1..Len(bus) : bus[k].op \in DataOps /\ bus[k].gate = IntWord(0)

\* the operations of main, in program order
MainTrace ==
    << "init_platform", "print", "store32", "load32",
       "bram_write", "store32", "store128", "store32", "return",
       "bram_read", "store32", "load128", "store32", "return",
       "print", "cleanup_platform" >>

Ops(s) == [k \in 1..Len(s) |-> s[k].op]

C8_Bracketed ==
    /\ \A k \in 1..Len(bus) :
         bus[k].op \in AccessOps =>
             /\ \E a \in 1..(k - 1) : bus[a].op = "init_platform"
             /\ \A c \in 1..(k - 1) : bus[c].op # "cleanup_platform"
    /\ IsSubsequence(Ops(bus), MainTrace)
    /\ \A k \in 1..Len(bus) :
         /\ bus[k].op \in {"store32", "load32"} =>
                bus[k].addr \in {Ptr(SLV_REG0), Ptr(SLV_REG3)}
         /\ bus[k].op \in CallOps => bus[k].addr = IntWord(0)
    /\ (platform = "down") = (bus = <<>>)
    /\ (platform = "cleaned") = (bus # <<>> /\ bus[Len(bus)].op = "cleanup_platform")
    /\ mpc = "exit" =>
           /\ rc = IntWord(0)
           /\ platform = "cleaned"
           /\ \E k \in 1..Len(bus) : Access(bus[k]) =
                  [op |-> "store32", addr |-> Ptr(SLV_REG0), val |-> IntWord(42)]
           /\ \E k \in 1..Len(bus) : bus[k].op = "store128"
           /\ \E k \in 1..Len(bus) : bus[k].op = "load128"
    /\ rc # NoValue => mpc = "exit"

(* C8: in main every register and BRAM access (the store of 42 to REG0, the  *)
(* load of REG0, the accesses of bram_write(value, 0) and bram_read(0))      *)
(* comes after init_platform and before cleanup_platform, in program order,  *)
(* and every run reaches cleanup and returns 0.                              *)
C8_MainBracketed == [](C8_Bracketed) /\ <>(mpc = "exit" /\ rc = IntWord(0))

\* main has returned 0 after all sixteen operations, and read back what it
\* wrote
C8_Witness ==
    /\ mpc = "exit"
    /\ rc = IntWord(0)
    /\ Ops(bus) = MainTrace
    /\ value1 = IntWord(42)
    /\ value3 = value2

(* C9: single-threaded, from any content of REG3: every BRAM data access     *)
(* happens while REG3 is 1, and after every call the whole 32-bit REG3 is 0. *)
C9_GateAroundAccess ==
    /\ \A k \in 1..Len(bus) : bus[k].op \in DataOps => bus[k].gate = IntWord(1)
    /\ pc[1] = "idle" /\ calls[1] > 0 => mem[Ptr(SLV_REG3)] = IntWord(0)

\* the addresses of the four words of the slot of index j, and the 128-bit
\* content of that slot in memory m
SlotWordAddrs == [j \in Indices |-> [k \in 0..3 |-> WordAddr(WriteSlotAddr(j), k)]]
SlotContent(m, j) ==
    LET w == SlotWordAddrs[j] IN m[w[0]] \o m[w[1]] \o m[w[2]] \o m[w[3]]

\* the value of the last store to the slot of index j among the first n
\* entries of the bus, or the slot's initial content
RECURSIVE LastWritten(_, _)
LastWritten(j, n) ==
    IF n = 0 THEN SlotContent(mem0, j)
    ELSE IF bus[n].op = "store128" /\ CallIdx(bus, n) = j THEN bus[n].val
    ELSE LastWritten(j, n - 1)

(* C10: bram_write(v, i) changes no slot but i and bram_read changes none:   *)
(* every slot holds the value of the last write to its index (its initial    *)
(* content if there was none), and bram_read(j) returns exactly that.        *)
C10_OnlySlotWritten ==
    /\ \A j \in Indices : SlotContent(mem, j) = LastWritten(j, Len(bus))
    /\ \A k \in 1..Len(bus) :
         bus[k].op = "return" /\ bus[CallPos(bus, k)].op = "bram_read" =>
             bus[k].val = LastWritten(bus[k].addr, k)

\* a write to slot 1, then a read of slot 0, which returns the initial
\* content of slot 0, not the value just written next to it
C10_Witness ==
    /\ bus # <<>>
    /\ bus[1].op = "bram_write" /\ bus[1].addr = IntWord(1)
    /\ bus[Len(bus)].op = "return"
    /\ bus[CallPos(bus, Len(bus))].op = "bram_read"
    /\ CallIdx(bus, Len(bus)) = IntWord(0)
    /\ bus[Len(bus)].val = SlotContent(mem0, IntWord(0))
    /\ bus[Len(bus)].val # bus[1].val

----------------------------------------------------------------------------
(* In the build that emits every access in program order the statements of  *)
(* C1, C2 and C9 hold.                                                      *)
InOrderBuildBrackets ==
    build = "in_order" => C1_WriteSequence /\ C2_ReadSequence /\ C9_GateAroundAccess

====
